---- MODULE Spec2Model ----
(***************************************************************************)
(* Model of src/main.py: the DataNode (Leaf Wrapper) and Data (Root        *)
(* Container) classes, which expose the keys of nested dicts as attributes *)
(* and items.                                                              *)
(*                                                                         *)
(* Dicts are heap objects (identity matters: wrappers share them by        *)
(* reference).  A Python value is a record [t, v]: an int, None, or a      *)
(* reference to a dict object.  The client is a script that constructs one *)
(* Data object and then performs get/set/delete/to_dict operations on it   *)
(* and on the DataNode wrappers it keeps.                                  *)
(***************************************************************************)
EXTENDS Integers, FiniteSets, Sequences, TLC

VARIABLES
    heap,     \* object id -> dict content (key -> value or Absent)
    nalloc,   \* objects 1..nalloc exist
    pc,       \* "start" before the Data object is constructed, "run" after
    ctor,     \* how the Data object was constructed: path, data given, other keywords
    root,     \* the Data object's __dict__: [data, defaults]
    nodes,    \* DataNode wrappers the client holds: slot -> its _data (Absent: empty slot)
    last,     \* the operation performed last
    ret,      \* what it returned or raised
    pre,      \* heap, root and nodes just before it
    steps,    \* operations performed so far
    intact,   \* no operation has replaced the Data object's _data or _default_values
    hist      \* what has happened so far: keys whose default a read has stored, and
              \* for each kept DataNode the get that returned it and whether that
              \* key of its parent has been set or deleted since

vars == <<heap, nalloc, pc, ctor, root, nodes, last, ret, pre, steps, intact, hist>>

----------------------------------------------------------------------------
(* Bounds *)

MaxObj == 8       \* dict objects that can exist
MaxNodes == 1     \* DataNode wrappers the client keeps at a time
MaxOps == 2       \* operations after construction
MaxDeepOps == 4   \* operations after construction in the narrow script (SpecDeep)

----------------------------------------------------------------------------
(* Values *)

Keys == {"h", "m", "_data", "_default_values", "to_dict"}

IntV(n) == [t |-> "int", v |-> n]
NoneV == [t |-> "none", v |-> 0]
DictV(o) == [t |-> "dict", v |-> o]
Absent == [t |-> "absent", v |-> 0]

Objs == 1..MaxObj

EmptyDict == [k \in Keys |-> Absent]

\* isinstance(value, dict)
IsDict(value) == value.t = "dict"

\* the dict literal {k1: v1, ...} given as a set of <<key, value>> pairs
Lit(pairs) ==
    [k \in Keys |-> IF \E p \in pairs : p[1] = k
                    THEN (CHOOSE p \in pairs : p[1] = k)[2]
                    ELSE Absent]

\* Results of an operation: a plain value, a new DataNode over a value, a
\* bound method, an exception, or nothing (a statement).
Value(x) == [kind |-> "value", t |-> x.t, v |-> x.v]
Node(x) == [kind |-> "node", t |-> x.t, v |-> x.v]
Method(name) == [kind |-> "method", t |-> name, v |-> 0]
Raised(exc) == [kind |-> "error", t |-> exc, v |-> 0]
Done == [kind |-> "done", t |-> "none", v |-> 0]

\* the value carried by a "value" or "node" result
Payload(r) == [t |-> r.t, v |-> r.v]

----------------------------------------------------------------------------
(* Dict primitives *)

\* item in d
Has(hp, d, item) == hp[d.v][item] # Absent

\* d[item] = value
StoreItem(hp, d, item, value) == [hp EXCEPT ![d.v][item] = value]

\* del d[item]
DelItem(hp, d, item) == [hp EXCEPT ![d.v][item] = Absent]

\* A handler's outcome: what it returns, the heap and allocation count after
\* it, and the object's own fields after it.
Out(r, hp, na, self) == [ret |-> r, heap |-> hp, nalloc |-> na, self |-> self]

----------------------------------------------------------------------------
(* class DataNode *)

\* names that normal attribute lookup finds on a DataNode before __getattr__
\* is tried: the instance field and the class's methods
DataNodeFields == {"_data"}
DataNodeMethods == {"to_dict"}

\* mutant: the node wraps a copy of the dict it is given
DataNode_init_Copy(hp, na, data) ==
    IF data = NoneV
    THEN Out(Node(DictV(na + 1)), hp, na + 1, DictV(na + 1))
    ELSE IF IsDict(data)
    THEN Out(Node(DictV(na + 1)), [hp EXCEPT ![na + 1] = hp[data.v]], na + 1,
             DictV(na + 1))
    ELSE Out(Node(data), hp, na, data)

\* DataNode(data): self is the _data of the new node
DataNode_init(hp, na, data) ==
    IF data = NoneV
    THEN Out(Node(DictV(na + 1)), hp, na + 1, DictV(na + 1))
    ELSE Out(Node(data), hp, na, data)

\* the expression DataNode(value) evaluated inside a method of `self`
NewDataNode(hp, na, value, self) ==
    [DataNode_init(hp, na, value) EXCEPT !.self = self]

\* mutant: reading a missing attribute creates it
DataNode_getattr_Vivify(hp, na, self, item) ==
    IF ~IsDict(self) THEN Out(Raised("TypeError"), hp, na, self)
    ELSE IF Has(hp, self, item)
    THEN LET value == hp[self.v][item] IN
         IF IsDict(value) THEN NewDataNode(hp, na, value, self)
         ELSE Out(Value(value), hp, na, self)
    ELSE Out(Value(NoneV), StoreItem(hp, self, item, NoneV), na, self)

\* mutant: a missing attribute raises, as it does on a Data object
DataNode_getattr_Strict(hp, na, self, item) ==
    IF ~IsDict(self) THEN Out(Raised("TypeError"), hp, na, self)
    ELSE IF Has(hp, self, item)
    THEN LET value == hp[self.v][item] IN
         IF IsDict(value) THEN NewDataNode(hp, na, value, self)
         ELSE Out(Value(value), hp, na, self)
    ELSE Out(Raised("AttributeError"), hp, na, self)

DataNode_getattr(hp, na, self, item) ==
    IF ~IsDict(self) THEN Out(Raised("TypeError"), hp, na, self)
    ELSE IF Has(hp, self, item)
    THEN LET value == hp[self.v][item] IN
         IF IsDict(value) THEN NewDataNode(hp, na, value, self)
         ELSE Out(Value(value), hp, na, self)
    ELSE Out(Value(NoneV), hp, na, self)

DataNode_setattr(hp, na, self, key, value) ==
    IF key # "_data"
    THEN IF ~IsDict(self) THEN Out(Raised("TypeError"), hp, na, self)
         ELSE Out(Done, StoreItem(hp, self, key, value), na, self)
    ELSE Out(Done, hp, na, value)

DataNode_delattr(hp, na, self, item) ==
    IF ~IsDict(self) THEN Out(Raised("TypeError"), hp, na, self)
    ELSE IF Has(hp, self, item)
    THEN Out(Done, DelItem(hp, self, item), na, self)
    ELSE Out(Done, hp, na, self)

\* mutant: every value read is wrapped in a DataNode
DataNode_getitem_WrapAll(hp, na, self, item) ==
    IF ~IsDict(self) THEN Out(Raised("TypeError"), hp, na, self)
    ELSE IF Has(hp, self, item)
    THEN NewDataNode(hp, na, hp[self.v][item], self)
    ELSE Out(Raised("KeyError"), hp, na, self)

DataNode_getitem(hp, na, self, item) ==
    IF ~IsDict(self) THEN Out(Raised("TypeError"), hp, na, self)
    ELSE IF Has(hp, self, item)
    THEN LET value == hp[self.v][item] IN
         IF IsDict(value) THEN NewDataNode(hp, na, value, self)
         ELSE Out(Value(value), hp, na, self)
    ELSE Out(Raised("KeyError"), hp, na, self)

\* mutant: an existing entry is kept (setdefault)
DataNode_setitem_KeepExisting(hp, na, self, key, value) ==
    IF ~IsDict(self) THEN Out(Raised("TypeError"), hp, na, self)
    ELSE IF Has(hp, self, key) THEN Out(Done, hp, na, self)
    ELSE Out(Done, StoreItem(hp, self, key, value), na, self)

DataNode_setitem(hp, na, self, key, value) ==
    IF ~IsDict(self) THEN Out(Raised("TypeError"), hp, na, self)
    ELSE Out(Done, StoreItem(hp, self, key, value), na, self)

\* mutant: deleting a missing item raises, as it does on a Data object
DataNode_delitem_Strict(hp, na, self, item) ==
    IF ~IsDict(self) THEN Out(Raised("TypeError"), hp, na, self)
    ELSE IF Has(hp, self, item)
    THEN Out(Done, DelItem(hp, self, item), na, self)
    ELSE Out(Raised("KeyError"), hp, na, self)

DataNode_delitem(hp, na, self, item) ==
    IF ~IsDict(self) THEN Out(Raised("TypeError"), hp, na, self)
    ELSE IF Has(hp, self, item)
    THEN Out(Done, DelItem(hp, self, item), na, self)
    ELSE Out(Done, hp, na, self)

DataNode_to_dict(hp, na, self) == Out(Value(self), hp, na, self)

\* the expression node.item: __getattr__ runs only when normal lookup fails
DataNode_dot(hp, na, self, item) ==
    IF item \in DataNodeFields THEN Out(Value(self), hp, na, self)
    ELSE IF item \in DataNodeMethods THEN Out(Method(item), hp, na, self)
    ELSE DataNode_getattr(hp, na, self, item)

----------------------------------------------------------------------------
(* class Data *)

DataFields == {"_data", "_default_values"}
DataMethods == {"to_dict", "from_dict"}

\* Data(**kwargs): kwargs.data and kwargs.default_values are Absent when the
\* keyword is not given; kwargs.named holds every other keyword argument.
Data_init(hp, na, kwargs) ==
    LET d == IF kwargs.data # Absent THEN kwargs.data ELSE DictV(na + 1)
        na1 == IF kwargs.data # Absent THEN na ELSE na + 1
        dv == IF kwargs.default_values # Absent THEN kwargs.default_values
              ELSE DictV(na1 + 1)
        na2 == IF kwargs.default_values # Absent THEN na1 ELSE na1 + 1
    IN  Out(Done, hp, na2, [data |-> d, defaults |-> dv])

\* mutant: cls(data=dict(data)), the object keeps a copy
Data_from_dict_Copy(hp, na, data) ==
    Data_init([hp EXCEPT ![na + 1] = hp[data.v]], na + 1,
              [data |-> DictV(na + 1), default_values |-> Absent,
               named |-> EmptyDict])

\* Data.from_dict(data) is cls(data=data)
Data_from_dict(hp, na, data) ==
    Data_init(hp, na, [data |-> data, default_values |-> Absent,
                       named |-> EmptyDict])

\* mutant: the defaults are consulted before the backing dict
Data_getattr_DefaultsFirst(hp, na, self, item) ==
    IF ~IsDict(self.data) \/ ~IsDict(self.defaults)
    THEN Out(Raised("TypeError"), hp, na, self)
    ELSE IF Has(hp, self.defaults, item)
    THEN LET default_value == hp[self.defaults.v][item] IN
         NewDataNode(StoreItem(hp, self.data, item, default_value), na,
                     default_value, self)
    ELSE IF Has(hp, self.data, item)
    THEN LET value == hp[self.data.v][item] IN
         IF IsDict(value) THEN NewDataNode(hp, na, value, self)
         ELSE Out(Value(value), hp, na, self)
    ELSE Out(Raised("AttributeError"), hp, na, self)

\* mutant: a miss in both dicts returns None, as it does on a DataNode
Data_getattr_Lenient(hp, na, self, item) ==
    IF ~IsDict(self.data) THEN Out(Raised("TypeError"), hp, na, self)
    ELSE IF Has(hp, self.data, item)
    THEN LET value == hp[self.data.v][item] IN
         IF IsDict(value) THEN NewDataNode(hp, na, value, self)
         ELSE Out(Value(value), hp, na, self)
    ELSE IF ~IsDict(self.defaults) THEN Out(Raised("TypeError"), hp, na, self)
    ELSE IF Has(hp, self.defaults, item)
    THEN LET default_value == hp[self.defaults.v][item] IN
         NewDataNode(StoreItem(hp, self.data, item, default_value), na,
                     default_value, self)
    ELSE Out(Value(NoneV), hp, na, self)

Data_getattr(hp, na, self, item) ==
    IF ~IsDict(self.data) THEN Out(Raised("TypeError"), hp, na, self)
    ELSE IF Has(hp, self.data, item)
    THEN LET value == hp[self.data.v][item] IN
         IF IsDict(value) THEN NewDataNode(hp, na, value, self)
         ELSE Out(Value(value), hp, na, self)
    ELSE IF ~IsDict(self.defaults) THEN Out(Raised("TypeError"), hp, na, self)
    ELSE IF Has(hp, self.defaults, item)
    THEN LET default_value == hp[self.defaults.v][item] IN
         NewDataNode(StoreItem(hp, self.data, item, default_value), na,
                     default_value, self)
    ELSE Out(Raised("AttributeError"), hp, na, self)

\* mutant: every name is written into the backing dict
Data_setattr_NoReserved(hp, na, self, key, value) ==
    IF ~IsDict(self.data) THEN Out(Raised("TypeError"), hp, na, self)
    ELSE Out(Done, StoreItem(hp, self.data, key, value), na, self)

Data_setattr(hp, na, self, key, value) ==
    IF key = "_data" THEN Out(Done, hp, na, [self EXCEPT !.data = value])
    ELSE IF key = "_default_values"
    THEN Out(Done, hp, na, [self EXCEPT !.defaults = value])
    ELSE IF ~IsDict(self.data) THEN Out(Raised("TypeError"), hp, na, self)
    ELSE Out(Done, StoreItem(hp, self.data, key, value), na, self)

\* mutant: a dict stored under the attribute is emptied before the entry goes
Data_delattr_Deep(hp, na, self, item) ==
    IF ~IsDict(self.data) THEN Out(Raised("TypeError"), hp, na, self)
    ELSE IF Has(hp, self.data, item)
    THEN LET value == hp[self.data.v][item]
             cleared == IF IsDict(value) THEN [hp EXCEPT ![value.v] = EmptyDict]
                        ELSE hp
         IN Out(Done, DelItem(cleared, self.data, item), na, self)
    ELSE Out(Raised("AttributeError"), hp, na, self)

\* mutant: deleting a missing attribute is a silent no-op, as on a DataNode
Data_delattr_Silent(hp, na, self, item) ==
    IF ~IsDict(self.data) THEN Out(Raised("TypeError"), hp, na, self)
    ELSE IF Has(hp, self.data, item)
    THEN Out(Done, DelItem(hp, self.data, item), na, self)
    ELSE Out(Done, hp, na, self)

Data_delattr(hp, na, self, item) ==
    IF ~IsDict(self.data) THEN Out(Raised("TypeError"), hp, na, self)
    ELSE IF Has(hp, self.data, item)
    THEN Out(Done, DelItem(hp, self.data, item), na, self)
    ELSE Out(Raised("AttributeError"), hp, na, self)

\* mutant: the defaults are consulted before the backing dict
Data_getitem_DefaultsFirst(hp, na, self, item) ==
    IF ~IsDict(self.data) \/ ~IsDict(self.defaults)
    THEN Out(Raised("TypeError"), hp, na, self)
    ELSE IF Has(hp, self.defaults, item)
    THEN LET default_value == hp[self.defaults.v][item] IN
         NewDataNode(StoreItem(hp, self.data, item, default_value), na,
                     default_value, self)
    ELSE IF Has(hp, self.data, item)
    THEN LET value == hp[self.data.v][item] IN
         IF IsDict(value) THEN NewDataNode(hp, na, value, self)
         ELSE Out(Value(value), hp, na, self)
    ELSE Out(Raised("KeyError"), hp, na, self)

\* mutant: the default is returned without being stored
Data_getitem_NoStore(hp, na, self, item) ==
    IF ~IsDict(self.data) THEN Out(Raised("TypeError"), hp, na, self)
    ELSE IF Has(hp, self.data, item)
    THEN LET value == hp[self.data.v][item] IN
         IF IsDict(value) THEN NewDataNode(hp, na, value, self)
         ELSE Out(Value(value), hp, na, self)
    ELSE IF ~IsDict(self.defaults) THEN Out(Raised("TypeError"), hp, na, self)
    ELSE IF Has(hp, self.defaults, item)
    THEN NewDataNode(hp, na, hp[self.defaults.v][item], self)
    ELSE Out(Raised("KeyError"), hp, na, self)

Data_getitem(hp, na, self, item) ==
    IF ~IsDict(self.data) THEN Out(Raised("TypeError"), hp, na, self)
    ELSE IF Has(hp, self.data, item)
    THEN LET value == hp[self.data.v][item] IN
         IF IsDict(value) THEN NewDataNode(hp, na, value, self)
         ELSE Out(Value(value), hp, na, self)
    ELSE IF ~IsDict(self.defaults) THEN Out(Raised("TypeError"), hp, na, self)
    ELSE IF Has(hp, self.defaults, item)
    THEN LET default_value == hp[self.defaults.v][item] IN
         NewDataNode(StoreItem(hp, self.data, item, default_value), na,
                     default_value, self)
    ELSE Out(Raised("KeyError"), hp, na, self)

Data_setitem(hp, na, self, key, value) ==
    IF ~IsDict(self.data) THEN Out(Raised("TypeError"), hp, na, self)
    ELSE Out(Done, StoreItem(hp, self.data, key, value), na, self)

Data_delitem(hp, na, self, item) ==
    IF ~IsDict(self.data) THEN Out(Raised("TypeError"), hp, na, self)
    ELSE IF Has(hp, self.data, item)
    THEN Out(Done, DelItem(hp, self.data, item), na, self)
    ELSE Out(Raised("KeyError"), hp, na, self)

Data_to_dict(hp, na, self) == Out(Value(self.data), hp, na, self)

\* the expression obj.item on a Data object
Data_dot(hp, na, self, item) ==
    IF item = "_data" THEN Out(Value(self.data), hp, na, self)
    ELSE IF item = "_default_values" THEN Out(Value(self.defaults), hp, na, self)
    ELSE IF item \in DataMethods THEN Out(Method(item), hp, na, self)
    ELSE Data_getattr(hp, na, self, item)

----------------------------------------------------------------------------
(* The client script *)

\* The dicts the client builds before constructing the Data object (the
\* `data = {...}` literal of the script, and a defaults dict):
\*   1: {h: 10, m: <2>}   2: {m: <3>}   3: {h: 10}
\*   4: {h: 100, m: <5>, to_dict: 10}    5: {h: 100}
InitHeap ==
    [o \in Objs |->
        CASE o = 1 -> Lit({<<"h", IntV(10)>>, <<"m", DictV(2)>>})
          [] o = 2 -> Lit({<<"m", DictV(3)>>})
          [] o = 3 -> Lit({<<"h", IntV(10)>>})
          [] o = 4 -> Lit({<<"h", IntV(100)>>, <<"m", DictV(5)>>,
                           <<"to_dict", IntV(10)>>})
          [] o = 5 -> Lit({<<"h", IntV(100)>>})
          [] OTHER -> EmptyDict]

InitObjs == {1, 2, 3, 4, 5}

\* arguments the client passes
DataArgs == {DictV(1), DictV(2)}            \* from_dict(data)
NoKwargs == [data |-> Absent, default_values |-> Absent, named |-> EmptyDict]
\* Data(data=d1, default_values=d4), Data(h=10), Data(h=10, default_values=d4)
KwargsArgs ==
    { [NoKwargs EXCEPT !.data = DictV(1), !.default_values = DictV(4)],
      [NoKwargs EXCEPT !.named = Lit({<<"h", IntV(10)>>})],
      [NoKwargs EXCEPT !.named = Lit({<<"h", IntV(10)>>}),
                       !.default_values = DictV(4)] }
FreshArg == [t |-> "fresh", v |-> 0]        \* a new {} literal
SetArgs == {IntV(100), IntV(10), NoneV, DictV(3), FreshArg}

NoOp == [cls |-> "none", op |-> "none", w |-> 0, key |-> "none", val |-> Absent]
NoRoot == [data |-> Absent, defaults |-> Absent]

Targets == {i \in 1..MaxNodes : nodes[i] # Absent}

Snapshot ==
    [heap |-> heap, nalloc |-> nalloc, root |-> root, nodes |-> nodes, hist |-> hist]

\* a DataNode slot's origin: the dict object of the wrapper whose get returned
\* it, and the key read
NoOrigin == [obj |-> 0, key |-> "none"]
NoHist ==
    [defaulted |-> {},
     origin |-> [i \in 1..MaxNodes |-> NoOrigin],
     detached |-> [i \in 1..MaxNodes |-> FALSE]]

\* hist after an operation `op` on a wrapper whose _data is `self`, with
\* outcome `out` on heap `hp`; w is the slot operated on (0: the Data object)
NextHist(h, hp, w, self, op, item, out, keep) ==
    LET routed == op = "setattr" /\ item \in (IF w = 0 THEN DataFields ELSE DataNodeFields)
        wrote == /\ op \in {"setattr", "setitem", "delattr", "delitem"}
                 /\ out.ret.kind = "done"
                 /\ ~routed
        rebound == w # 0 /\ routed
        kept == out.ret.kind = "node" /\ keep # 0
        d1 == IF w = 0 /\ op \in {"getattr", "getitem"} /\ out.heap # hp
              THEN h.defaulted \cup {item} ELSE h.defaulted
        det == [i \in 1..MaxNodes |->
                  IF kept /\ i = keep THEN FALSE
                  ELSE IF rebound /\ i = w THEN FALSE
                  ELSE IF wrote /\ self.t = "dict" /\ h.origin[i] = [obj |-> self.v, key |-> item]
                       THEN TRUE
                  ELSE h.detached[i]]
        org == [i \in 1..MaxNodes |->
                  IF kept /\ i = keep
                  THEN (IF self.t = "dict" THEN [obj |-> self.v, key |-> item]
                        ELSE NoOrigin)
                  ELSE IF rebound /\ i = w THEN NoOrigin
                  ELSE h.origin[i]]
    IN  [defaulted |-> d1, origin |-> org, detached |-> det]

Init ==
    /\ heap = InitHeap
    /\ nalloc = Cardinality(InitObjs)
    /\ pc = "start"
    /\ ctor = [path |-> "none", data |-> Absent, named |-> EmptyDict]
    /\ root = NoRoot
    /\ nodes = [i \in 1..MaxNodes |-> Absent]
    /\ last = NoOp
    /\ ret = Done
    /\ pre = [heap |-> InitHeap, nalloc |-> Cardinality(InitObjs), root |-> NoRoot,
              nodes |-> [i \in 1..MaxNodes |-> Absent], hist |-> NoHist]
    /\ steps = 0
    /\ intact = TRUE
    /\ hist = NoHist

\* my_inst = Data.from_dict(data) / my_inst = Data(**kwargs)
Construct(path, arg, named, out) ==
    /\ pc = "start"
    /\ out.nalloc <= MaxObj
    /\ pc' = "run"
    /\ ctor' = [path |-> path, data |-> arg, named |-> named]
    /\ heap' = out.heap
    /\ nalloc' = out.nalloc
    /\ root' = out.self
    /\ ret' = out.ret
    /\ last' = [NoOp EXCEPT !.cls = "Data", !.op = path]
    /\ pre' = Snapshot
    /\ UNCHANGED <<nodes, steps, intact, hist>>

\* an operation on the Data object; a DataNode it returns may be kept in
\* slot `keep` (0: dropped)
RootStep(op, item, val, out, keep) ==
    /\ pc = "run"
    /\ out.nalloc <= MaxObj
    /\ heap' = out.heap
    /\ nalloc' = out.nalloc
    /\ root' = out.self
    /\ ret' = out.ret
    /\ nodes' = IF out.ret.kind = "node" /\ keep # 0
                THEN [nodes EXCEPT ![keep] = Payload(out.ret)]
                ELSE nodes
    /\ last' = [cls |-> "Data", op |-> op, w |-> 0, key |-> item, val |-> val]
    /\ pre' = Snapshot
    /\ steps' = steps + 1
    /\ intact' = (intact /\ ~(op = "setattr" /\ item \in DataFields))
    /\ hist' = NextHist(hist, heap, 0, root.data, op, item, out, keep)
    /\ UNCHANGED <<pc, ctor>>

RootOp(op, item, val, out, keep) ==
    /\ steps < MaxOps
    /\ RootStep(op, item, val, out, keep)

\* an operation on the DataNode held in slot w
NodeStep(w, op, item, val, out, keep) ==
    /\ pc = "run"
    /\ out.nalloc <= MaxObj
    /\ heap' = out.heap
    /\ nalloc' = out.nalloc
    /\ ret' = out.ret
    /\ nodes' = LET ns == [nodes EXCEPT ![w] = out.self] IN
                IF out.ret.kind = "node" /\ keep # 0
                THEN [ns EXCEPT ![keep] = Payload(out.ret)]
                ELSE ns
    /\ last' = [cls |-> "DataNode", op |-> op, w |-> w, key |-> item, val |-> val]
    /\ pre' = Snapshot
    /\ steps' = steps + 1
    /\ hist' = NextHist(hist, heap, w, nodes[w], op, item, out, keep)
    /\ UNCHANGED <<pc, ctor, root, intact>>

NodeOp(w, op, item, val, out, keep) ==
    /\ steps < MaxOps
    /\ NodeStep(w, op, item, val, out, keep)

\* the value an argument denotes, and the allocation count once it exists
ArgValue(a) == IF a = FreshArg THEN DictV(nalloc + 1) ELSE a
ArgAlloc(a) == IF a = FreshArg THEN nalloc + 1 ELSE nalloc

Keeps == 0..MaxNodes

DoFromDict ==
    \E d \in DataArgs :
        Construct("from_dict", d, EmptyDict, Data_from_dict(heap, nalloc, d))

DoNewData ==
    \E kwargs \in KwargsArgs :
        Construct("init", kwargs.data, kwargs.named, Data_init(heap, nalloc, kwargs))

DataGetAttr ==
    \E item \in Keys, keep \in Keeps :
        RootOp("getattr", item, Absent, Data_dot(heap, nalloc, root, item), keep)

DataGetItem ==
    \E item \in Keys, keep \in Keeps :
        RootOp("getitem", item, Absent, Data_getitem(heap, nalloc, root, item), keep)

DataSetAttr ==
    \E key \in Keys, a \in SetArgs :
        RootOp("setattr", key, ArgValue(a),
               Data_setattr(heap, ArgAlloc(a), root, key, ArgValue(a)), 0)

DataSetItem ==
    \E key \in Keys, a \in SetArgs :
        RootOp("setitem", key, ArgValue(a),
               Data_setitem(heap, ArgAlloc(a), root, key, ArgValue(a)), 0)

DataDelAttr ==
    \E item \in Keys :
        RootOp("delattr", item, Absent, Data_delattr(heap, nalloc, root, item), 0)

DataDelItem ==
    \E item \in Keys :
        RootOp("delitem", item, Absent, Data_delitem(heap, nalloc, root, item), 0)

DataToDict ==
    RootOp("to_dict", "none", Absent, Data_to_dict(heap, nalloc, root), 0)

NodeGetAttr ==
    \E w \in Targets, item \in Keys, keep \in Keeps :
        NodeOp(w, "getattr", item, Absent,
               DataNode_dot(heap, nalloc, nodes[w], item), keep)

NodeGetItem ==
    \E w \in Targets, item \in Keys, keep \in Keeps :
        NodeOp(w, "getitem", item, Absent,
               DataNode_getitem(heap, nalloc, nodes[w], item), keep)

NodeSetAttr ==
    \E w \in Targets, key \in Keys, a \in SetArgs :
        NodeOp(w, "setattr", key, ArgValue(a),
               DataNode_setattr(heap, ArgAlloc(a), nodes[w], key, ArgValue(a)), 0)

NodeSetItem ==
    \E w \in Targets, key \in Keys, a \in SetArgs :
        NodeOp(w, "setitem", key, ArgValue(a),
               DataNode_setitem(heap, ArgAlloc(a), nodes[w], key, ArgValue(a)), 0)

NodeDelAttr ==
    \E w \in Targets, item \in Keys :
        NodeOp(w, "delattr", item, Absent,
               DataNode_delattr(heap, nalloc, nodes[w], item), 0)

NodeDelItem ==
    \E w \in Targets, item \in Keys :
        NodeOp(w, "delitem", item, Absent,
               DataNode_delitem(heap, nalloc, nodes[w], item), 0)

NodeToDict ==
    \E w \in Targets :
        NodeOp(w, "to_dict", "none", Absent,
               DataNode_to_dict(heap, nalloc, nodes[w]), 0)

Next ==
    \/ DoFromDict
    \/ DoNewData
    \/ DataGetAttr
    \/ DataGetItem
    \/ DataSetAttr
    \/ DataSetItem
    \/ DataDelAttr
    \/ DataDelItem
    \/ DataToDict
    \/ NodeGetAttr
    \/ NodeGetItem
    \/ NodeSetAttr
    \/ NodeSetItem
    \/ NodeDelAttr
    \/ NodeDelItem
    \/ NodeToDict

Spec == Init /\ [][Next]_vars

----------------------------------------------------------------------------
(* The narrow script: the same operations with fewer keys and values, run  *)
(* one operation longer.                                                   *)

DeepKeys == {"h", "m"}
DeepArgs == {IntV(100), DictV(3)}
DeepDataArgs == {DictV(2)}
DeepKwargsArgs ==
    { [NoKwargs EXCEPT !.named = Lit({<<"h", IntV(10)>>}),
                       !.default_values = DictV(4)] }

DeepRootOp(op, item, val, out, keep) ==
    /\ steps < MaxDeepOps
    /\ RootStep(op, item, val, out, keep)

DeepNodeOp(w, op, item, val, out, keep) ==
    /\ steps < MaxDeepOps
    /\ NodeStep(w, op, item, val, out, keep)

DeepFromDict ==
    \E d \in DeepDataArgs :
        Construct("from_dict", d, EmptyDict, Data_from_dict(heap, nalloc, d))

DeepNewData ==
    \E kwargs \in DeepKwargsArgs :
        Construct("init", kwargs.data, kwargs.named, Data_init(heap, nalloc, kwargs))

DeepDataGetAttr ==
    \E item \in DeepKeys, keep \in Keeps :
        DeepRootOp("getattr", item, Absent, Data_dot(heap, nalloc, root, item), keep)

DeepDataGetItem ==
    \E item \in DeepKeys, keep \in Keeps :
        DeepRootOp("getitem", item, Absent,
                   Data_getitem(heap, nalloc, root, item), keep)

DeepDataSetAttr ==
    \E key \in DeepKeys, a \in DeepArgs :
        DeepRootOp("setattr", key, a, Data_setattr(heap, nalloc, root, key, a), 0)

DeepDataSetItem ==
    \E key \in DeepKeys, a \in DeepArgs :
        DeepRootOp("setitem", key, a, Data_setitem(heap, nalloc, root, key, a), 0)

DeepDataDelAttr ==
    \E item \in DeepKeys :
        DeepRootOp("delattr", item, Absent,
                   Data_delattr(heap, nalloc, root, item), 0)

DeepDataDelItem ==
    \E item \in DeepKeys :
        DeepRootOp("delitem", item, Absent,
                   Data_delitem(heap, nalloc, root, item), 0)

DeepNodeGetAttr ==
    \E w \in Targets, item \in DeepKeys, keep \in Keeps :
        DeepNodeOp(w, "getattr", item, Absent,
                   DataNode_dot(heap, nalloc, nodes[w], item), keep)

DeepNodeGetItem ==
    \E w \in Targets, item \in DeepKeys, keep \in Keeps :
        DeepNodeOp(w, "getitem", item, Absent,
                   DataNode_getitem(heap, nalloc, nodes[w], item), keep)

DeepNodeSetAttr ==
    \E w \in Targets, key \in DeepKeys, a \in DeepArgs :
        DeepNodeOp(w, "setattr", key, a,
                   DataNode_setattr(heap, nalloc, nodes[w], key, a), 0)

DeepNodeSetItem ==
    \E w \in Targets, key \in DeepKeys, a \in DeepArgs :
        DeepNodeOp(w, "setitem", key, a,
                   DataNode_setitem(heap, nalloc, nodes[w], key, a), 0)

DeepNodeDelAttr ==
    \E w \in Targets, item \in DeepKeys :
        DeepNodeOp(w, "delattr", item, Absent,
                   DataNode_delattr(heap, nalloc, nodes[w], item), 0)

DeepNodeDelItem ==
    \E w \in Targets, item \in DeepKeys :
        DeepNodeOp(w, "delitem", item, Absent,
                   DataNode_delitem(heap, nalloc, nodes[w], item), 0)

NextDeep ==
    \/ DeepFromDict
    \/ DeepNewData
    \/ DeepDataGetAttr
    \/ DeepDataGetItem
    \/ DeepDataSetAttr
    \/ DeepDataSetItem
    \/ DeepDataDelAttr
    \/ DeepDataDelItem
    \/ DeepNodeGetAttr
    \/ DeepNodeGetItem
    \/ DeepNodeSetAttr
    \/ DeepNodeSetItem
    \/ DeepNodeDelAttr
    \/ DeepNodeDelItem

SpecDeep == Init /\ [][NextDeep]_vars

----------------------------------------------------------------------------
(* Vocabulary of the properties *)

GetOps == {"getattr", "getitem"}
SetOps == {"setattr", "setitem"}
DelOps == {"delattr", "delitem"}

\* the operation performed last was `ops` on the Data object / on a DataNode
OnData(ops) == last.cls = "Data" /\ last.op \in ops
OnNode(ops) == last.cls = "DataNode" /\ last.op \in ops

\* names that obj.name resolves without calling __getattr__
OwnNames(cls) ==
    IF cls = "Data" THEN DataFields \cup DataMethods
    ELSE DataNodeFields \cup DataNodeMethods

\* the last operation was obj.name for one of the object's own names
Shadowed == last.op = "getattr" /\ last.key \in OwnNames(last.cls)

\* how a DataNode hands out a value it has read
Wrapped(value) == IF IsDict(value) THEN Node(value) ELSE Value(value)

\* the Data object had mappings for data and defaults before the operation
RootWasMapped == IsDict(pre.root.data) /\ IsDict(pre.root.defaults)

\* before the last operation, key k was only in the defaults
WasDefaultOnly(k) ==
    /\ RootWasMapped
    /\ ~Has(pre.heap, pre.root.data, k)
    /\ Has(pre.heap, pre.root.defaults, k)

DefaultOf(k) == pre.heap[pre.root.defaults.v][k]

\* the same read as the last one, performed again now
ReadAgain ==
    IF last.op = "getattr" THEN Data_dot(heap, nalloc, root, last.key)
    ELSE Data_getitem(heap, nalloc, root, last.key)

----------------------------------------------------------------------------
(* C1: reading a key that is only in the defaults returns the default      *)
(* wrapped as a DataNode would wrap a value it read: a new DataNode when   *)
(* the default is a dict, the default itself when it is a scalar.          *)

C1_DefaultReturnedAsRead ==
    (OnData(GetOps) /\ WasDefaultOnly(last.key) /\ ~Shadowed)
        => ret = Wrapped(DefaultOf(last.key))

(* C2 as stated: reading, in either form, a key that is only in the        *)
(* defaults stores the default in the backing dict, and reading it again   *)
(* yields that value from the backing dict.                                *)

C2_Materialized ==
    /\ Has(heap, root.data, last.key)
    /\ heap[root.data.v][last.key] = DefaultOf(last.key)
    /\ ReadAgain.ret = Wrapped(DefaultOf(last.key))
    /\ ReadAgain.heap = heap

C2_AnyReadMaterializes ==
    (OnData(GetOps) /\ WasDefaultOnly(last.key)) => C2_Materialized

(* C2 amended: the same for item reads of any key and for attribute reads  *)
(* of a key that is not one of the object's own attribute names.           *)

C2_ReadMaterializes ==
    (OnData(GetOps) /\ WasDefaultOnly(last.key) /\ ~Shadowed) => C2_Materialized

C2_Witness ==
    /\ OnData({"getattr"}) /\ WasDefaultOnly(last.key) /\ ~Shadowed
    /\ heap[root.data.v][last.key] = IntV(100)
    /\ heap # pre.heap

(* C3: Data(name=value, ...) makes every named field an entry of the       *)
(* backing dict, so that reading it returns the value given.               *)

C3_NamedFieldsStored ==
    OnData({"init"}) =>
        \A k \in Keys :
            ctor.named[k] # Absent =>
                /\ IsDict(root.data)
                /\ heap[root.data.v][k] = ctor.named[k]
                /\ Data_getitem(heap, nalloc, root, k).ret = Wrapped(ctor.named[k])

----------------------------------------------------------------------------
(* The wrapper the last operation was performed on *)

\* its _data before the operation
PreSelf == IF last.cls = "Data" THEN pre.root.data ELSE pre.nodes[last.w]

OnWrapper(ops) == last.cls \in {"Data", "DataNode"} /\ last.op \in ops

\* it wrapped a mapping, which had / lacked the key of the operation
WasPresent == IsDict(PreSelf) /\ Has(pre.heap, PreSelf, last.key)
WasAbsent == IsDict(PreSelf) /\ ~Has(pre.heap, PreSelf, last.key)
PreValue == pre.heap[PreSelf.v][last.key]

\* the last operation was obj._data = value (for Data also _default_values)
ReplacedField ==
    /\ last.op = "setattr"
    /\ last.key \in (IF last.cls = "Data" THEN DataFields ELSE DataNodeFields)

\* nothing the program holds has changed
NothingChanged ==
    /\ heap = pre.heap
    /\ nalloc = pre.nalloc
    /\ root = pre.root
    /\ nodes = pre.nodes

\* to_dict() of the wrapper just returned
ExportOfReturned == DataNode_to_dict(heap, nalloc, Payload(ret)).ret

----------------------------------------------------------------------------
(* C4 as stated: on any wrapper, reading (in either form) a key whose      *)
(* value is a dict returns a new DataNode whose to_dict() is that very     *)
(* dict object, and every set or delete through a DataNode changes the     *)
(* dict object it was created over, which is the one its parent holds.     *)

C4_SameMapping ==
    /\ ret.kind = "node"
    /\ ExportOfReturned = Value(PreValue)
    /\ heap = pre.heap /\ nalloc = pre.nalloc /\ root = pre.root

C4_WriteThrough ==
    /\ ret = Done
    /\ nodes[last.w] = pre.nodes[last.w]
    /\ heap = [pre.heap EXCEPT ![PreSelf.v][last.key] =
                  IF last.op \in SetOps THEN last.val ELSE Absent]

C4_AnyAccessShares ==
    /\ (OnWrapper(GetOps) /\ WasPresent /\ IsDict(PreValue)) => C4_SameMapping
    /\ (OnNode(SetOps \cup DelOps) /\ IsDict(PreSelf)) => C4_WriteThrough

(* C4 amended: the same, for item reads of any key and attribute reads of  *)
(* a key that is not one of the wrapper's own attribute names, and for     *)
(* every set or delete other than the attribute assignment node._data = v. *)

C4_AccessShares ==
    /\ (OnWrapper(GetOps) /\ WasPresent /\ IsDict(PreValue) /\ ~Shadowed)
          => C4_SameMapping
    /\ (OnNode(SetOps \cup DelOps) /\ IsDict(PreSelf) /\ ~ReplacedField)
          => C4_WriteThrough

\* a write through a nested DataNode that shows in the Data object's to_dict()
C4_Witness ==
    /\ OnNode(SetOps) /\ IsDict(PreSelf) /\ ~ReplacedField
    /\ IsDict(root.data)
    /\ \E k \in Keys : heap[root.data.v][k] = nodes[last.w]
    /\ heap[nodes[last.w].v][last.key] = last.val
    /\ pre.heap[nodes[last.w].v][last.key] # last.val

----------------------------------------------------------------------------
(* C5: Data.from_dict(d).to_dict() is d itself, and stays d as long as no  *)
(* operation replaces the object's _data or _default_values; what is set   *)
(* through the object is stored in d.                                      *)

C5_RoundTrip ==
    (ctor.path = "from_dict" /\ intact) =>
        /\ Data_to_dict(heap, nalloc, root).ret = Value(ctor.data)
        /\ (OnData(SetOps) => heap[ctor.data.v][last.key] = last.val)
        /\ (OnData(DelOps) => heap[ctor.data.v][last.key] = Absent)

C5_Witness ==
    /\ ctor.path = "from_dict" /\ intact
    /\ OnData(SetOps)
    /\ steps = MaxOps
    /\ heap[ctor.data.v] # InitHeap[ctor.data.v]
    /\ heap[ctor.data.v][last.key] = last.val

----------------------------------------------------------------------------
(* C6: deleting from the Data object a key that its backing dict lacks     *)
(* raises AttributeError (attribute form) or KeyError (item form), also    *)
(* when the key has a default and however often it is tried, and changes   *)
(* nothing; deleting a key that is present removes it without error.       *)

NotFound(op) == IF op \in {"getattr", "delattr"} THEN Raised("AttributeError")
                ELSE Raised("KeyError")

DeleteAgain ==
    IF last.op = "delattr" THEN Data_delattr(heap, nalloc, root, last.key)
    ELSE Data_delitem(heap, nalloc, root, last.key)

C6_DataDeleteStrict ==
    /\ (OnData(DelOps) /\ WasAbsent) =>
          /\ ret = NotFound(last.op)
          /\ NothingChanged
          /\ DeleteAgain.ret = ret
          /\ DeleteAgain.heap = heap
    /\ (OnData(DelOps) /\ WasPresent) =>
          /\ ret = Done
          /\ heap = [pre.heap EXCEPT ![PreSelf.v][last.key] = Absent]
          /\ root = pre.root

\* deleting a key that is absent but has a default
C6_Witness ==
    /\ OnData(DelOps) /\ WasAbsent
    /\ IsDict(root.defaults) /\ Has(heap, root.defaults, last.key)
    /\ ret.kind = "error"

----------------------------------------------------------------------------
(* C7: deleting through a DataNode, in either form, never raises; a key    *)
(* that is present is removed and the other keys stay, a key that is       *)
(* absent leaves the dict as it was; deleting again changes nothing more.  *)

NodeDeleteAgain ==
    IF last.op = "delattr" THEN DataNode_delattr(heap, nalloc, nodes[last.w], last.key)
    ELSE DataNode_delitem(heap, nalloc, nodes[last.w], last.key)

C7_NodeDeleteIdempotent ==
    (OnNode(DelOps) /\ IsDict(PreSelf)) =>
        /\ ret = Done
        /\ heap = [pre.heap EXCEPT ![PreSelf.v][last.key] = Absent]
        /\ WasAbsent => NothingChanged
        /\ nodes = pre.nodes /\ root = pre.root
        /\ NodeDeleteAgain.ret = Done
        /\ NodeDeleteAgain.heap = heap

\* a delete of an absent key through a DataNode
C7_Witness ==
    /\ OnNode(DelOps) /\ WasAbsent
    /\ ret = Done

----------------------------------------------------------------------------
(* C8 as stated: on a DataNode, reading a key its dict lacks returns None  *)
(* in attribute form and raises KeyError in item form, and neither read    *)
(* changes the dict.                                                       *)

C8_Missing ==
    /\ ret = (IF last.op = "getattr" THEN Value(NoneV) ELSE Raised("KeyError"))
    /\ NothingChanged

C8_AnyNodeMiss ==
    (OnNode(GetOps) /\ WasAbsent) => C8_Missing

(* C8 amended: the same, the attribute form for a key that is not one of   *)
(* the DataNode's own attribute names (_data, to_dict).                    *)

C8_NodeMiss ==
    (OnNode(GetOps) /\ WasAbsent /\ ~Shadowed) => C8_Missing

C8_Witness ==
    /\ OnNode({"getattr"}) /\ WasAbsent /\ ~Shadowed
    /\ ret = Value(NoneV)

----------------------------------------------------------------------------
(* C9 as stated: on the Data object, reading a key that is neither in the  *)
(* backing dict nor in the defaults raises AttributeError in attribute     *)
(* form and KeyError in item form, and changes neither dict.               *)

WasInNeither ==
    /\ RootWasMapped
    /\ ~Has(pre.heap, pre.root.data, last.key)
    /\ ~Has(pre.heap, pre.root.defaults, last.key)

C9_Missing ==
    /\ ret = NotFound(last.op)
    /\ NothingChanged

C9_AnyDataMiss ==
    (OnData(GetOps) /\ WasInNeither) => C9_Missing

(* C9 amended: the same, the attribute form for a key that is not one of   *)
(* the Data object's own attribute names (_data, _default_values, to_dict, *)
(* from_dict).                                                             *)

C9_DataMiss ==
    (OnData(GetOps) /\ WasInNeither /\ ~Shadowed) => C9_Missing

C9_Witness ==
    /\ OnData({"getattr"}) /\ WasInNeither /\ ~Shadowed
    /\ ret = Raised("AttributeError")

----------------------------------------------------------------------------
(* C10 as stated: on any wrapper, reading a key whose value is not a dict  *)
(* returns that value in attribute form and in item form alike, and        *)
(* changes nothing.                                                        *)

\* the same key read now in attribute form and in item form
ReadAsAttr ==
    IF last.cls = "Data" THEN Data_dot(heap, nalloc, root, last.key)
    ELSE DataNode_dot(heap, nalloc, nodes[last.w], last.key)
ReadAsItem ==
    IF last.cls = "Data" THEN Data_getitem(heap, nalloc, root, last.key)
    ELSE DataNode_getitem(heap, nalloc, nodes[last.w], last.key)

C10_AnyScalarRead ==
    (OnWrapper(GetOps) /\ WasPresent /\ ~IsDict(PreValue)) =>
        /\ ret = Value(PreValue)
        /\ NothingChanged
        /\ ReadAsAttr.ret = ReadAsItem.ret

(* C10 amended: the item form returns the value for every such key; the    *)
(* attribute form returns it, and so agrees with the item form, for every  *)
(* such key that is not one of the wrapper's own attribute names.          *)

C10_ScalarRead ==
    (OnWrapper(GetOps) /\ WasPresent /\ ~IsDict(PreValue) /\ ~Shadowed) =>
        /\ ret = Value(PreValue)
        /\ NothingChanged
        /\ last.key \notin OwnNames(last.cls) => ReadAsAttr.ret = ReadAsItem.ret

C10_Witness ==
    /\ OnNode({"getattr"}) /\ WasPresent /\ ~Shadowed
    /\ ret = Value(IntV(10))
    /\ ReadAsItem.ret = ret

----------------------------------------------------------------------------
(* C11 as stated: once a read has stored the default of key k, no later    *)
(* read of k on the Data object takes the default path again, whatever     *)
(* get, set and delete operations come between.                            *)

\* the last operation was a read on the Data object that stored a default
TookDefault == OnData(GetOps) /\ heap # pre.heap

----------------------------------------------------------------------------
(* C12 as stated: the Data object looks a key up in the backing dict       *)
(* first and in the defaults only when the backing dict lacks it; after    *)
(* set(k, v) on a key that has a default, a read of k in either form       *)
(* returns v, and the entry is not overwritten by the default.             *)

HadDefault ==
    RootWasMapped /\ Has(pre.heap, pre.root.defaults, last.key)

C12_BackingWins ==
    (OnData(GetOps) /\ WasPresent /\ ~Shadowed) =>
        /\ ret = Wrapped(PreValue)
        /\ heap = pre.heap

C12_AnySetThenRead ==
    /\ C12_BackingWins
    /\ (OnData(SetOps) /\ HadDefault) =>
          /\ ReadAsAttr.ret = Wrapped(last.val)
          /\ ReadAsItem.ret = Wrapped(last.val)
          /\ ReadAsAttr.heap = heap /\ ReadAsItem.heap = heap

(* C12 amended: the same, where the attribute-form read returns v only for *)
(* a key that is not one of the object's own attribute names; v is         *)
(* returned wrapped in a new DataNode when it is a dict.                   *)

C12_SetThenRead ==
    /\ C12_BackingWins
    /\ (OnData(SetOps) /\ HadDefault /\ ~ReplacedField) =>
          /\ ReadAsItem.ret = Wrapped(last.val)
          /\ ReadAsItem.heap = heap
          /\ last.key \notin OwnNames("Data") =>
                (ReadAsAttr.ret = Wrapped(last.val) /\ ReadAsAttr.heap = heap)

\* a value set over a different default, and read back
C12_Witness ==
    /\ OnData(SetOps) /\ HadDefault /\ last.key \notin OwnNames("Data")
    /\ last.val # DefaultOf(last.key)
    /\ ReadAsAttr.ret = Wrapped(last.val)
    /\ heap[root.data.v][last.key] = last.val

----------------------------------------------------------------------------
(* C13 as stated: set(name, value) on the Data object, in attribute form   *)
(* and in item form, stores value in the backing dict under name for every *)
(* name but _data and _default_values; for these two it replaces the       *)
(* object's own field and adds no entry to the backing dict.               *)

C13_Stored ==
    /\ ret = Done
    /\ heap = StoreItem(pre.heap, pre.root.data, last.key, last.val)
    /\ root = pre.root

C13_Routed ==
    /\ ret = Done
    /\ heap = pre.heap
    /\ root = (IF last.key = "_data" THEN [pre.root EXCEPT !.data = last.val]
               ELSE [pre.root EXCEPT !.defaults = last.val])

C13_AnySetRoutes ==
    /\ (OnData(SetOps) /\ last.key \notin DataFields /\ IsDict(pre.root.data))
          => C13_Stored
    /\ (OnData(SetOps) /\ last.key \in DataFields) => C13_Routed

(* C13 amended: that holds of the attribute form; the item form stores     *)
(* value in the backing dict under every name, _data and _default_values   *)
(* included, and never touches the object's own fields.                    *)

C13_SetRoutes ==
    /\ (OnData({"setattr"}) /\ last.key \notin DataFields /\ IsDict(pre.root.data))
          => C13_Stored
    /\ (OnData({"setattr"}) /\ last.key \in DataFields) => C13_Routed
    /\ (OnData({"setitem"}) /\ IsDict(pre.root.data)) => C13_Stored

\* an attribute assignment that replaced the backing dict
C13_Witness ==
    /\ OnData({"setattr"}) /\ last.key = "_data"
    /\ root.data = last.val /\ root.data # pre.root.data
    /\ heap = pre.heap

----------------------------------------------------------------------------
(* C14 as stated: set(name, value) on a DataNode, in attribute form and in *)
(* item form, stores value under name in its dict whatever was there, a    *)
(* nested dict included, and leaves the other keys alone; reading name     *)
(* afterwards returns value, in a new DataNode when value is a dict.       *)

C14_Stored ==
    /\ ret = Done
    /\ heap = StoreItem(pre.heap, PreSelf, last.key, last.val)
    /\ nodes = pre.nodes /\ root = pre.root
    /\ ReadAsItem.ret = Wrapped(last.val)

C14_AnyNodeSetStores ==
    (OnNode(SetOps) /\ IsDict(PreSelf)) =>
        (C14_Stored /\ ReadAsAttr.ret = Wrapped(last.val))

(* C14 amended: the same for the item form and every name, and for the     *)
(* attribute form and every name but _data, whose assignment rebinds the   *)
(* DataNode to value and stores nothing; the attribute-form read returns   *)
(* value for a name that is not one of the DataNode's own attribute names. *)

C14_NodeSetStores ==
    /\ (OnNode(SetOps) /\ IsDict(PreSelf) /\ ~ReplacedField) =>
          /\ C14_Stored
          /\ last.key \notin OwnNames("DataNode") => ReadAsAttr.ret = Wrapped(last.val)
    /\ (OnNode(SetOps) /\ ReplacedField) =>
          /\ ret = Done
          /\ heap = pre.heap
          /\ nodes[last.w] = last.val

\* a nested dict overwritten by a scalar through a DataNode
C14_Witness ==
    /\ OnNode(SetOps) /\ WasPresent /\ ~ReplacedField
    /\ IsDict(PreValue) /\ ~IsDict(last.val)
    /\ heap[nodes[last.w].v][last.key] = last.val

----------------------------------------------------------------------------
(* C15 as stated: a DataNode obtained from the Data object never consults  *)
(* the defaults: reading through it a key that its dict lacks and the      *)
(* defaults have returns None (attribute form) or raises KeyError (item    *)
(* form) and stores nothing anywhere.                                      *)

RootHasDefault ==
    IsDict(pre.root.defaults) /\ Has(pre.heap, pre.root.defaults, last.key)

C15_AnyNodeReadSkipsDefaults ==
    (OnNode(GetOps) /\ WasAbsent /\ RootHasDefault) => C8_Missing

(* C15 amended: the same, the attribute form for a key that is not one of  *)
(* the DataNode's own attribute names.                                     *)

C15_NodeReadSkipsDefaults ==
    (OnNode(GetOps) /\ WasAbsent /\ RootHasDefault /\ ~Shadowed) =>
        /\ ret = (IF last.op = "getattr" THEN Value(NoneV) ELSE Raised("KeyError"))
        /\ ~Has(heap, nodes[last.w], last.key)
        /\ NothingChanged

C15_Witness ==
    /\ OnNode({"getitem"}) /\ WasAbsent /\ RootHasDefault
    /\ ret = Raised("KeyError")
    /\ \E k \in Keys : pre.heap[pre.root.data.v][k] = PreSelf

----------------------------------------------------------------------------
\* the dict objects reachable from the dicts in S through dict-valued entries
RECURSIVE Closure(_, _)
Closure(hp, S) ==
    LET T == S \cup {hp[p[1]][p[2]].v :
                       p \in {q \in S \X Keys : IsDict(hp[q[1]][q[2]])}}
    IN IF T = S THEN S ELSE Closure(hp, T)

\* the dict objects that make up the content of dict object o
Reach(hp, o) == Closure(hp, {o})

(* C16: no get, set or delete on the Data object or on a DataNode, other   *)
(* than the assignment of _default_values, changes the content of the      *)
(* defaults, nested dicts included.                                        *)

C16_DefaultsUnchanged ==
    ( /\ OnWrapper(GetOps \cup SetOps \cup DelOps)
      /\ IsDict(pre.root.defaults)
      /\ ~(OnData({"setattr"}) /\ last.key = "_default_values") )
    => \A o \in Reach(pre.heap, pre.root.defaults.v) : heap[o] = pre.heap[o]

----------------------------------------------------------------------------
\* the last operation ran on a DataNode whose origin had since written or
\* deleted the key it was read under
OnDetached(ops) ==
    /\ OnNode(ops) /\ ~ReplacedField
    /\ IsDict(PreSelf)
    /\ pre.hist.detached[last.w]

\* what the origin of the DataNode exported before the last operation
ParentExport == Reach(pre.heap, pre.hist.origin[last.w].obj)

(* C17 as stated: once the object a DataNode was read from has overwritten *)
(* or deleted the key, a set or delete through the DataNode succeeds and   *)
(* changes nothing that object exports.                                    *)

====
